---- MODULE Spec2Model ----
(***************************************************************************)
(* A model of migrateissues.py: the migration of the issues of a Google    *)
(* Code project (the source, read-only) to a Github repository (the        *)
(* destination).                                                           *)
(*                                                                         *)
(* Texts (issue bodies, comment bodies) are sequences of tokens.  A token  *)
(* is one character ("#", " ", "\n", a digit, a letter) or one of the      *)
(* literal fragments the program's templates are made of, kept whole:      *)
(*   OrigTok  "_Original issue: "   (GOOGLE_ISSUE_TEMPLATE, up to %s)      *)
(*   UrlTok   the permalink up to and including "id=" (GOOGLE_URL)         *)
(*   ZW       "&#8203;"  the zero-width marker                             *)
(*   GhTok    "(Github:"                                                   *)
(*   IssueTok, IssueCapTok   the word "issue", "Issue"                     *)
(* Numbers are written out in decimal digits and parsed back.              *)
(***************************************************************************)
EXTENDS Integers, Sequences, FiniteSets, TLC

NL == "\n"
ZW == "&#8203;"
OrigTok == "_Original issue: "
UrlTok == "http://code.google.com/p/proj/issues/detail?id="
GhTok == "(Github:"
IssueTok == "issue"
IssueCapTok == "Issue"
AuthorTok == "_Original author: a (d)"
FromTok == "_From a on d"
DupTok == "This issue is a duplicate of"
SkipTok == "_Skipping this issue number to maintain synchronization with Google Code issue IDs._"
MergedTailTok == " has been merged into this issue"

(* comment.content.text of an empty <content/> element is None *)
None == <<"None">>

Digits == <<"0", "1", "2", "3", "4", "5", "6", "7", "8", "9">>

IsDigit(t) == \E d \in 1..10 : Digits[d] = t

DigitVal(t) == (CHOOSE d \in 1..10 : Digits[d] = t) - 1

(* "%d" % n *)
RECURSIVE Dec(_)
Dec(n) == IF n < 10 THEN <<Digits[n + 1]>> ELSE Dec(n \div 10) \o <<Digits[(n % 10) + 1]>>

(* int(digits) *)
RECURSIVE ParseInt(_)
ParseInt(ds) ==
    IF ds = <<>> THEN 0
    ELSE 10 * ParseInt(SubSeq(ds, 1, Len(ds) - 1)) + DigitVal(ds[Len(ds)])

(* the length of the longest run of digits of s that starts at position i *)
RECURSIVE DigitRun(_, _)
DigitRun(s, i) ==
    IF i <= Len(s) /\ IsDigit(s[i]) THEN 1 + DigitRun(s, i + 1) ELSE 0

UpperCase == "ABCDEFGHIJKLMNOPQRSTUVWXYZ"

LowerCase == "abcdefghijklmnopqrstuvwxyz"

(* one character of str.lower() *)
LowerChar(c) ==
    IF \E k \in 1..Len(UpperCase) : SubSeq(UpperCase, k, k) = c
    THEN LET k == CHOOSE j \in 1..Len(UpperCase) : SubSeq(UpperCase, j, j) = c
         IN  SubSeq(LowerCase, k, k)
    ELSE c

(* str.lower() *)
RECURSIVE Lower(_)
Lower(str) ==
    IF str = "" THEN ""
    ELSE LowerChar(SubSeq(str, 1, 1)) \o Lower(SubSeq(str, 2, Len(str)))

(* one character of the text against one character of a pattern: a dot of
   the pattern stands for any character but a newline; under re.IGNORECASE
   the case of letters is ignored *)
CharMatches(c, q, ci) ==
    \/ c = q
    \/ q = "." /\ c # NL
    \/ ci /\ LowerChar(c) = LowerChar(q)

(* the characters of a token against as many characters of a pattern *)
StrMatches(t, q, ci) ==
    \/ t = q
    \/ /\ Len(t) = Len(q)
       /\ \A k \in 1..Len(t) : CharMatches(SubSeq(t, k, k), SubSeq(q, k, k), ci)

(* the literal part p of a pattern matched from token i on: the position of
   the token after it, 0 when the text does not match *)
RECURSIVE Consume(_, _, _, _)
Consume(s, i, p, ci) ==
    IF p = "" THEN i
    ELSE IF i > Len(s) \/ Len(s[i]) > Len(p) THEN 0
    ELSE IF StrMatches(s[i], SubSeq(p, 1, Len(s[i])), ci)
         THEN Consume(s, i + 1, SubSeq(p, Len(s[i]) + 1, Len(p)), ci)
         ELSE 0

(* the text from token i on starts with the literal p: the test of a
   lookahead *)
RECURSIVE Ahead(_, _, _, _)
Ahead(s, i, p, ci) ==
    IF p = "" THEN TRUE
    ELSE IF i > Len(s) THEN FALSE
    ELSE IF Len(s[i]) >= Len(p) THEN StrMatches(SubSeq(s[i], 1, Len(p)), p, ci)
    ELSE /\ StrMatches(s[i], SubSeq(p, 1, Len(s[i])), ci)
         /\ Ahead(s, i + 1, SubSeq(p, Len(s[i]) + 1, Len(p)), ci)

(* the literal p matched backwards, its last character being the last one
   of token i: the test of a lookbehind *)
RECURSIVE ConsumeBack(_, _, _, _)
ConsumeBack(s, i, p, ci) ==
    IF p = "" THEN TRUE
    ELSE IF i < 1 THEN FALSE
    ELSE IF Len(s[i]) >= Len(p)
         THEN StrMatches(SubSeq(s[i], Len(s[i]) - Len(p) + 1, Len(s[i])), p, ci)
         ELSE /\ StrMatches(s[i], SubSeq(p, Len(p) - Len(s[i]) + 1, Len(p)), ci)
              /\ ConsumeBack(s, i - 1, SubSeq(p, 1, Len(p) - Len(s[i])), ci)

StartsWithAt(s, i, p) ==
    /\ i + Len(p) - 1 <= Len(s)
    /\ \A k \in 1..Len(p) : s[i + k - 1] = p[k]

(* str.replace(old, new): every non-overlapping occurrence, left to right *)
RECURSIVE ReplaceFrom(_, _, _, _)
ReplaceFrom(s, i, old, new) ==
    IF i > Len(s) THEN <<>>
    ELSE IF StartsWithAt(s, i, old) THEN new \o ReplaceFrom(s, i + Len(old), old, new)
    ELSE <<s[i]>> \o ReplaceFrom(s, i + 1, old, new)

Replace(s, old, new) == ReplaceFrom(s, 1, old, new)

(* "# Clean content": the two replace calls of add_issue_to_github and of
   format_comment *)
CleanContent(content) ==
    Replace(Replace(content, <<NL, "#">>, <<NL, "#", ZW>>),
            <<NL, " ", "#">>, <<NL, " ", "#", ZW>>)

(* GOOGLE_URL % (google_project, gid) *)
GoogleUrl(gid) == <<UrlTok>> \o Dec(gid)

(* a footer that lacks the closing mark id_re looks for *)
Footer_Unclosed(link) == <<OrigTok>> \o link

(* GOOGLE_ISSUE_TEMPLATE % link *)
Footer(link) == <<OrigTok>> \o link \o <<"_">>

(* id_re.search(body) with id_re = GOOGLE_ID_RE % google_project: the source
   ID of the first back-reference in the body, -1 when there is none *)
IdDigitsAt(s, i) == Consume(s, i, OrigTok \o UrlTok, FALSE)

IdMatchAt(s, i) ==
    LET j == IdDigitsAt(s, i)
    IN  /\ j # 0
        /\ DigitRun(s, j) >= 1
        /\ j + DigitRun(s, j) <= Len(s)
        /\ SubSeq(s[j + DigitRun(s, j)], 1, 1) = "_"

RECURSIVE IdSearchFrom(_, _)
IdSearchFrom(body, i) ==
    IF i > Len(body) THEN -1
    ELSE IF IdMatchAt(body, i)
         THEN ParseInt(SubSeq(body, IdDigitsAt(body, i),
                              IdDigitsAt(body, i) + DigitRun(body, IdDigitsAt(body, i)) - 1))
         ELSE IdSearchFrom(body, i + 1)

IdSearch(body) == IdSearchFrom(body, 1)

(***************************************************************************)
(* Content Transformer                                                     *)
(***************************************************************************)

(* The page size of the source queries.  The program asks for
   GOOGLE_MAX_RESULTS = 500 records a page; the model keeps the paging and
   scales the page down. *)
PageSize == 2

GITHUB_SPARE_REQUESTS == 50

GOOGLE_STATUS_VALUES_FILTERED == {"Invalid", "Duplicate"}

(* GOOGLE_STATUS_MAPPING[status] if status is a key, else status.lower() *)
StatusLabel(status) ==
    CASE status = "Invalid" -> "invalid"
      [] status = "Duplicate" -> "duplicate"
      [] status = "WontFix" -> "wontfix"
      [] OTHER -> Lower(status)

(* GOOGLE_LABEL_MAPPING.get(label, label) *)
MapLabel(label) ==
    CASE label = "Type-Defect" -> "bug"
      [] label = "Type-Enhancement" -> "enhancement"
      [] OTHER -> label

(* label.text.startswith("Priority-") *)
IsPriority(label) == Len(label) >= 9 /\ SubSeq(label, 1, 9) = "Priority-"

(* the labels list of add_issue_to_github *)
RECURSIVE MappedLabels(_, _)
MappedLabels(ls, omit) ==
    IF ls = <<>> THEN <<>>
    ELSE IF IsPriority(Head(ls)) /\ omit THEN MappedLabels(Tail(ls), omit)
    ELSE <<MapLabel(Head(ls))>> \o MappedLabels(Tail(ls), omit)

IssueLabels(issue, omit) ==
    <<"imported">> \o MappedLabels(issue.label, omit) \o <<StatusLabel(issue.status)>>

(* re.match(r"Issue (\d+) has been merged into this issue.", text) *)
IsAutoMerged(text) ==
    LET j == Consume(text, 1, IssueCapTok \o " ", FALSE)
        e == IF j # 0 /\ DigitRun(text, j) >= 1
             THEN Consume(text, j + DigitRun(text, j), MergedTailTok, FALSE)
             ELSE 0
    IN  /\ e # 0
        /\ e <= Len(text)
        /\ SubSeq(text[e], 1, 1) # NL

(* a truthy comment.content.text: neither None nor "" *)
HasText(comment) == comment.text # None /\ comment.text # <<>>

should_migrate_comment(comment) ==
    IF HasText(comment) THEN ~IsAutoMerged(comment.text)
    ELSE comment.merged # 0

(* format_comment raises AttributeError at content.replace when
   comment.content.text is None *)
format_comment_raises(comment) == comment.text = None

format_comment(comment, base_id) ==
    IF comment.merged # 0
    THEN <<"_", DupTok, " ", "#">> \o Dec(base_id + comment.merged) \o <<"_">>
    ELSE <<FromTok, "_", NL>> \o CleanContent(comment.text)

(* body of add_issue_to_github: header, cleaned content, footer *)
IssueBody(issue) ==
    <<AuthorTok, "_", NL, NL>> \o CleanContent(issue.content)
        \o <<NL, NL, NL>> \o Footer(issue.link)

(* the link is appended without the template of the footer *)
PlaceholderBody_Bare(gid) == <<SkipTok, NL, NL>> \o GoogleUrl(gid)

(* body of a dummy entry of process_gcode_issues *)
PlaceholderBody(gid) == <<SkipTok, NL, NL>> \o Footer(GoogleUrl(gid))

(* re.sub(r'^(.+):_\n', r'\1_\n', body) *)
FirstNL(body) ==
    IF \E k \in 1..Len(body) : body[k] = NL
    THEN CHOOSE k \in 1..Len(body) : body[k] = NL /\ \A j \in 1..(k - 1) : body[j] # NL
    ELSE 0

Normalize(body) ==
    LET k == FirstNL(body)
    IN  IF k >= 4 /\ body[k - 2] = ":" /\ body[k - 1] = "_"
        THEN SubSeq(body, 1, k - 3) \o SubSeq(body, k - 1, Len(body))
        ELSE body

(***************************************************************************)
(* The source project                                                      *)
(***************************************************************************)

Cm(text, merged) == [text |-> text, merged |-> merged]

Iss(id, status, state, owner, label, content, comments) ==
    [id |-> id, status |-> status, state |-> state, owner |-> owner, label |-> label,
     content |-> content, link |-> GoogleUrl(id), comments |-> comments]

Plain(id, status, state, comments) == Iss(id, status, state, FALSE, <<>>, <<"a">>, comments)

(* The projects migrated.  Issues come in ascending ID order, as the source
   enumerates them. *)
Sources ==
    { (* three comments, more than a page *)
      <<Plain(1, "New", "open", <<Cm(<<"a">>, 0), Cm(<<"b">>, 0), Cm(<<"c">>, 0)>>)>>,
      (* a filtered issue before a migrated one *)
      <<Plain(1, "Invalid", "closed", <<Cm(<<"a">>, 0)>>),
        Plain(2, "Fixed", "closed", <<Cm(<<"b">>, 0)>>)>>,
      (* a gap in the IDs; an owner, labels, a heading and references in the text *)
      <<Iss(1, "New", "open", TRUE, <<"Type-Defect", "Priority-High">>,
            <<"#", "h", NL, "#", "h", NL, "s", " ", IssueTok, " ", "#", "3">>,
            <<Cm(<<"s", " ", "#", "1", NL, " ", "#", "h">>, 0)>>),
        Plain(3, "Fixed", "closed", <<>>)>>,
      (* a merge recorded as an update, with no text; noise comments *)
      <<Plain(2, "Duplicate", "closed", <<>>),
        Plain(3, "New", "open",
              <<Cm(None, 2), Cm(<<IssueCapTok, " ", "2", MergedTailTok, ".">>, 0), Cm(None, 0)>>)>>,
      (* a merge update that carries text; a closing gap of two IDs *)
      <<Plain(3, "WontFix", "closed", <<Cm(<<"d">>, 7), Cm(<<"a">>, 0)>>)>>,
      (* more than a page of issues *)
      <<Plain(1, "New", "closed", <<>>), Plain(2, "Invalid", "open", <<>>),
        Plain(4, "New", "open", <<Cm(<<"a">>, 0), Cm(<<"a">>, 0)>>)>> }

Quotas == {5000, 56}

(* options: the combinations run.  base_id, assign_owner and omit_priority
   vary on the plain migration only. *)
Opt(dry, sync, ids, owner, omit, base) ==
    [dry_run |-> dry, synchronize_ids |-> sync, assign_ids |-> ids,
     assign_owner |-> owner, omit_priority |-> omit, base_id |-> base]

OptionSets ==
    { Opt(d, s, i, FALSE, FALSE, 0) : d \in BOOLEAN, s \in BOOLEAN, i \in BOOLEAN }
        \cup { Opt(d, FALSE, FALSE, TRUE, TRUE, 100) : d \in BOOLEAN }

(***************************************************************************)
(* State                                                                   *)
(***************************************************************************)

VARIABLES
    source,               \* gc: the issues of the Google Code project
    gh_issues,            \* github_repo: its issues, number n at position n
    gh_labels,            \* github_repo: the names of its labels
    quota,                \* gh.rate_limiting[0]
    run,                  \* "first" or "rerun"
    options,              \* options of this run
    pc,                   \* where this run is
    reason,               \* why it ended
    label_cache,
    existing_issues,      \* source ID -> number of the Github issue
    start_index, entry,   \* issues page and position in it
    previous_gid,
    github_issue,         \* number of the issue at hand, 0 for None
    labels, ret,          \* labels left to resolve, and where to go next
    existing_comments, c_start_index, comments,
    google_id_to_github, todo, cidx,
    trace,                \* the calls and checks of this run, in order
    scanned,              \* the source IDs get_existing_github_issues found
    issue_map, scan_todo, \* get_existing_github_issues: its map, the issues left to look at
    first,                \* the first run: its options, how it ended, what it left
    rw_text, rw_map, rw_pass, \* a text under issue_re.sub, pass after pass
    arg_comment, decision \* a source comment, and what was decided and built for it

vars == <<source, gh_issues, gh_labels, quota, run, options, pc, reason, label_cache,
          existing_issues, start_index, entry, previous_gid, github_issue, labels, ret,
          existing_comments, c_start_index, comments, google_id_to_github, todo, cidx,
          trace, scanned, issue_map, scan_todo, first, rw_text, rw_map, rw_pass,
          arg_comment, decision>>

static == <<source, rw_text, rw_map, rw_pass, arg_comment, decision>>
world == <<static, gh_issues, gh_labels>>
index == <<existing_issues, scanned, issue_map, scan_todo>>
backlink == <<google_id_to_github, todo, cidx>>
commentvars == <<existing_comments, c_start_index, comments>>
issuevars == <<start_index, entry, previous_gid, github_issue>>
labelvars == <<label_cache, labels, ret>>
runvars == <<run, options, reason, first>>

Empty == [g \in {} |-> 0]

NoRun == [options |-> Opt(FALSE, FALSE, FALSE, FALSE, FALSE, 0), pc |-> "none",
          gh_issues |-> <<>>]

Init ==
    /\ source \in Sources
    /\ quota \in Quotas
    /\ gh_issues = <<>>
    /\ gh_labels = {}
    /\ run = "first"
    /\ options = Opt(FALSE, FALSE, FALSE, FALSE, FALSE, 0)
    /\ pc = "start"
    /\ reason = ""
    /\ label_cache = {}
    /\ existing_issues = Empty
    /\ start_index = 1 /\ entry = 1 /\ previous_gid = 0 /\ github_issue = 0
    /\ labels = <<>> /\ ret = ""
    /\ existing_comments = {} /\ c_start_index = 1 /\ comments = <<>>
    /\ google_id_to_github = Empty /\ todo = <<>> /\ cidx = 1
    /\ trace = <<>>
    /\ scanned = {}
    /\ issue_map = Empty /\ scan_todo = <<>>
    /\ first = NoRun
    /\ rw_text = <<>> /\ rw_map = Empty /\ rw_pass = 0
    /\ arg_comment = Cm(<<>>, 0) /\ decision = <<>>

(***************************************************************************)
(* Helpers of the run                                                      *)
(***************************************************************************)

Min(a, b) == IF a < b THEN a ELSE b

(* a page of a feed: max_results entries from start_index on *)
Page(feed, start) == SubSeq(feed, start, Min(start + PageSize - 1, Len(feed)))

(* the entries of the feed are taken last to first *)
CurIssue_Reversed == source[Len(source) + 2 - start_index - entry]

(* the issue of the for loop of process_gcode_issues *)
CurIssue == source[start_index + entry - 1]

(* gid of the issue at hand, 0 outside of the loop *)
CurGid ==
    IF pc \in {"start", "login", "get_owner", "get_repo", "scan", "scan_closed",
               "scan_issue", "scan_labels", "map_scan", "map_scan_closed", "map_issue",
               "edit_body", "map_get_comments", "edit_comment", "issues_page", "done",
               "aborted"}
       \/ start_index + entry - 1 > Len(source)
    THEN 0 ELSE CurIssue.id

(* a call or check of the run: what, while which source issue was at hand
   (gid), about which source ID (src, the missing ID for a dummy entry), the
   number of the Github issue concerned, and for a call of github_label the
   name of the label *)
Event(op, n) ==
    [op |-> op, gid |-> CurGid,
     src |-> IF pc \in {"ph_create", "ph_close"} \/ (pc \in {"label", "label_create"} /\ ret = "ph_create")
             THEN previous_gid ELSE CurGid,
     n |-> n,
     label |-> IF pc \in {"label", "label_create"} /\ labels # <<>> THEN Head(labels) ELSE ""]

(* k requests to Github were answered *)
Spend(k) == quota' = IF quota >= k THEN quota - k ELSE 0

(* github_repo.get_issues(state = st), newest first *)
RECURSIVE IssuesInState(_, _, _)
IssuesInState(gh, st, n) ==
    IF n = 0 THEN <<>>
    ELSE (IF gh[n].state = st THEN <<n>> ELSE <<>>) \o IssuesInState(gh, st, n - 1)

(* only the open issues are listed *)
AllIssues_Open(gh) == IssuesInState(gh, "open", Len(gh))

(* list(get_issues(state='open')) + list(get_issues(state='closed')) *)
AllIssues(gh) == IssuesInState(gh, "open", Len(gh)) \o IssuesInState(gh, "closed", Len(gh))

(* the loop that fills issue_map (and google_id_to_github): a later issue of
   the list replaces an earlier one with the same source ID *)
RECURSIVE IssueMap(_, _)
IssueMap(gh, order) ==
    IF order = <<>> THEN Empty
    ELSE LET m == IssueMap(gh, SubSeq(order, 1, Len(order) - 1))
             n == order[Len(order)]
             g == IdSearch(gh[n].body)
         IN  IF g >= 0 THEN [x \in DOMAIN m \cup {g} |-> IF x = g THEN n ELSE m[x]] ELSE m

Range(f) == {f[x] : x \in DOMAIN f}

NewIssue(body, lbls) ==
    [body |-> body, state |-> "open", comments |-> <<>>, labels |-> lbls, assignee |-> FALSE]

(* the entries of a comments page that pass the filter of the list comprehension *)
RECURSIVE NewComments(_, _, _)
NewComments(feed, existing, base_id) ==
    IF feed = <<>> THEN <<>>
    ELSE (IF should_migrate_comment(Head(feed))
             /\ format_comment(Head(feed), base_id) \notin existing
          THEN <<Head(feed)>> ELSE <<>>) \o NewComments(Tail(feed), existing, base_id)

(* the list comprehension calls format_comment on each entry that
   should_migrate_comment lets through *)
PageRaises(feed) ==
    \E k \in 1..Len(feed) : should_migrate_comment(feed[k]) /\ format_comment_raises(feed[k])

(* the state is edited whether it differs or not *)
AfterComments_Always(gh) == "state_edit"

(* where the issue at hand goes after its comments: the state edit, if due *)
AfterComments(gh) ==
    IF gh[github_issue].state # CurIssue.state THEN "state_edit" ELSE "end_issue"

(***************************************************************************)
(* __main__                                                                *)
(***************************************************************************)

(* the program is started: the options are parsed (lines 483-490) and the
   variables of the run are fresh *)
Begin(o) ==
    /\ options' = o
    /\ pc' = "login"
    /\ reason' = ""
    /\ label_cache' = {}
    /\ existing_issues' = Empty
    /\ scanned' = {}
    /\ issue_map' = Empty /\ scan_todo' = <<>>
    /\ start_index' = 1 /\ entry' = 1 /\ previous_gid' = 0 /\ github_issue' = 0
    /\ labels' = <<>> /\ ret' = ""
    /\ existing_comments' = {} /\ c_start_index' = 1 /\ comments' = <<>>
    /\ google_id_to_github' = Empty /\ todo' = <<>> /\ cidx' = 1
    /\ trace' = <<>>
    /\ UNCHANGED <<world, quota>>

Start ==
    /\ pc = "start"
    /\ \E o \in OptionSets : Begin(o)
    /\ UNCHANGED <<run, first>>

(* the program is run again on what the first run left *)
Rerun ==
    /\ pc \in {"done", "aborted"}
    /\ run = "first"
    /\ run' = "rerun"
    /\ first' = [options |-> options, pc |-> pc, gh_issues |-> gh_issues]
    /\ \E o \in OptionSets : Begin(o)

(* github.Github(github_username, github_password).get_user().login: the
   credentials are checked with a request for the user *)
CheckCredentials ==
    /\ pc = "login"
    /\ Spend(1)
    /\ trace' = Append(trace, Event("get_authenticated_user", 0))
    /\ pc' = "get_owner"
    /\ UNCHANGED <<world, runvars, labelvars, index, issuevars, commentvars, backlink>>

(* github_owner.get_repo(github_project), first half: github_user = gh.get_user()
   sent nothing, and the login of the owner is asked for now *)
GetOwner ==
    /\ pc = "get_owner"
    /\ Spend(1)
    /\ trace' = Append(trace, Event("get_authenticated_user", 0))
    /\ pc' = "get_repo"
    /\ UNCHANGED <<world, runvars, labelvars, index, issuevars, commentvars, backlink>>

(* github_owner.get_repo(github_project), second half: the repository *)
GetRepo ==
    /\ pc = "get_repo"
    /\ Spend(1)
    /\ trace' = Append(trace, Event("get_repo", 0))
    /\ pc' = "scan"
    /\ UNCHANGED <<world, runvars, labelvars, index, issuevars, commentvars, backlink>>

(* lines 500-532, for a project name without an owner part *)
Startup == CheckCredentials \/ GetOwner \/ GetRepo

(* the positions at which a request to Github is being waited for *)
CallPending ==
    \/ pc \in {"login", "get_owner", "get_repo", "scan", "scan_closed", "scan_labels",
               "map_scan", "map_scan_closed", "label_create", "ph_create", "ph_close",
               "create_issue", "get_user", "assign", "get_comments", "create_comment",
               "state_edit", "edit_body", "map_get_comments", "edit_comment"}
    \/ pc = "label" /\ labels # <<>> /\ Head(labels) \notin label_cache

(* a request that failed is sent again instead of ending the process *)
CallFails_Retry ==
    /\ CallPending
    /\ reason = ""
    /\ reason' = "failed"
    /\ UNCHANGED <<world, quota, run, options, first, pc, labelvars, index, issuevars,
                   commentvars, backlink, trace>>

(* a request to Github raises: the exception is not caught and ends the
   process (lines 392, 468 raise it again; the try of line 535 is commented
   out).  The request that failed took nothing from the quota.  At the
   credentials check a GithubException asks for the password again, which
   changes nothing; any other exception ends the process there as well. *)
CallFails ==
    /\ CallPending
    /\ pc' = "aborted"
    /\ reason' = "failed"
    /\ UNCHANGED <<world, quota, run, options, first, labelvars, index, issuevars,
                   commentvars, backlink, trace>>

(* list(github_repo.get_issues(state='open')) *)
ScanOpen ==
    /\ pc = "scan"
    /\ Spend(1)
    /\ trace' = Append(trace, Event("get_issues", 0))
    /\ pc' = "scan_closed"
    /\ UNCHANGED <<world, runvars, labelvars, index, issuevars, commentvars, backlink>>

(* + list(github_repo.get_issues(state='closed')); issue_map = {} *)
ScanClosed ==
    /\ pc = "scan_closed"
    /\ Spend(1)
    /\ trace' = Append(trace, Event("get_issues", 0))
    /\ scan_todo' = AllIssues(gh_issues)
    /\ issue_map' = Empty
    /\ pc' = "scan_issue"
    /\ UNCHANGED <<world, runvars, labelvars, existing_issues, scanned, issuevars,
                   commentvars, backlink>>

(* for issue in existing_issues: id_re.search(issue.body), and for a match
   issue_map[google_id] = issue; after the last issue the map is returned and
   becomes existing_issues (line 536) *)
ScanIssue ==
    /\ pc = "scan_issue"
    /\ IF scan_todo = <<>>
       THEN /\ existing_issues' = issue_map
            /\ scanned' = DOMAIN issue_map
            /\ trace' = Append(trace, Event("index_built", 0))
            /\ pc' = IF options.assign_ids THEN "map_scan" ELSE "issues_page"
            /\ UNCHANGED <<issue_map, scan_todo>>
       ELSE /\ LET n == Head(scan_todo)
                   g == IdSearch(gh_issues[n].body)
               IN  IF g >= 0
                   THEN /\ issue_map' = [x \in DOMAIN issue_map \cup {g} |->
                                             IF x = g THEN n ELSE issue_map[x]]
                        /\ pc' = "scan_labels"
                        /\ UNCHANGED scan_todo
                   ELSE /\ scan_todo' = Tail(scan_todo)
                        /\ pc' = "scan_issue"
                        /\ UNCHANGED issue_map
            /\ UNCHANGED <<existing_issues, scanned, trace>>
    /\ UNCHANGED <<world, quota, runvars, labelvars, issuevars, commentvars, backlink>>

(* labels = [l.name for l in issue.get_labels()]: one request for each issue
   that carries a back-reference *)
ScanLabels ==
    /\ pc = "scan_labels"
    /\ Spend(1)
    /\ trace' = Append(trace, Event("get_labels", Head(scan_todo)))
    /\ scan_todo' = Tail(scan_todo)
    /\ pc' = "scan_issue"
    /\ UNCHANGED <<world, runvars, labelvars, existing_issues, scanned, issue_map,
                   issuevars, commentvars, backlink>>

get_existing_github_issues == ScanOpen \/ ScanClosed \/ ScanIssue \/ ScanLabels

(***************************************************************************)
(* github_label                                                            *)
(***************************************************************************)

LabelCached ==
    /\ pc = "label"
    /\ labels # <<>>
    /\ Head(labels) \in label_cache
    /\ labels' = Tail(labels)
    /\ UNCHANGED <<world, quota, runvars, pc, label_cache, ret, index, issuevars,
                   commentvars, backlink, trace>>

(* a label found on Github is not kept in the cache *)
GetLabel_NoCache ==
    /\ pc = "label"
    /\ labels # <<>>
    /\ Head(labels) \notin label_cache
    /\ Spend(1)
    /\ trace' = Append(trace, Event("get_label", 0))
    /\ IF Head(labels) \in gh_labels
       THEN /\ labels' = Tail(labels)
            /\ pc' = "label"
            /\ UNCHANGED label_cache
       ELSE /\ pc' = "label_create"
            /\ UNCHANGED <<label_cache, labels>>
    /\ UNCHANGED <<world, runvars, ret, index, issuevars, commentvars, backlink>>

GetLabel ==
    /\ pc = "label"
    /\ labels # <<>>
    /\ Head(labels) \notin label_cache
    /\ Spend(1)
    /\ trace' = Append(trace, Event("get_label", 0))
    /\ IF Head(labels) \in gh_labels
       THEN /\ label_cache' = label_cache \cup {Head(labels)}
            /\ labels' = Tail(labels)
            /\ pc' = "label"
       ELSE /\ pc' = "label_create"
            /\ UNCHANGED <<label_cache, labels>>
    /\ UNCHANGED <<world, runvars, ret, index, issuevars, commentvars, backlink>>

(* github_repo.get_label(name) raises a GithubException though the request
   was not answered with "not found": the except clause of line 108 takes it
   for a missing label all the same and goes on to create_label.  The lookup
   is on the record of the run; it took nothing from the quota. *)
GetLabelFails ==
    /\ pc = "label"
    /\ labels # <<>>
    /\ Head(labels) \notin label_cache
    /\ trace' = Append(trace, Event("get_label", 0))
    /\ pc' = "label_create"
    /\ UNCHANGED <<world, quota, runvars, labelvars, index, issuevars, commentvars,
                   backlink>>

(* github_repo.create_label(name, color): Github refuses a name it has, and
   the GithubException ends the process *)
CreateLabel ==
    /\ pc = "label_create"
    /\ Spend(1)
    /\ IF Head(labels) \in gh_labels
       THEN /\ pc' = "aborted"
            /\ reason' = "failed"
            /\ UNCHANGED <<gh_labels, label_cache, labels, trace>>
       ELSE /\ gh_labels' = gh_labels \cup {Head(labels)}
            /\ label_cache' = label_cache \cup {Head(labels)}
            /\ labels' = Tail(labels)
            /\ trace' = Append(trace, Event("create_label", 0))
            /\ pc' = "label"
            /\ UNCHANGED reason
    /\ UNCHANGED <<static, gh_issues, run, options, first, ret, index, issuevars,
                   commentvars, backlink>>

LabelsDone ==
    /\ pc = "label"
    /\ labels = <<>>
    /\ pc' = ret
    /\ UNCHANGED <<world, quota, runvars, labelvars, index, issuevars, commentvars,
                   backlink, trace>>
(***************************************************************************)
(* process_gcode_issues                                                    *)
(***************************************************************************)

(* an empty page does not end the loop: the page is asked for again *)
IssuesPage_NoBreak ==
    /\ pc = "issues_page"
    /\ entry' = 1
    /\ pc' = IF Page(source, start_index) = <<>> THEN "issues_page" ELSE "issue"
    /\ UNCHANGED <<world, quota, runvars, labelvars, index, start_index,
                   previous_gid, github_issue, commentvars, backlink, trace>>

(* gc.get_issues: the next page of issues; an empty page ends the run *)
IssuesPage ==
    /\ pc = "issues_page"
    /\ entry' = 1
    /\ pc' = IF Page(source, start_index) = <<>> THEN "done" ELSE "issue"
    /\ UNCHANGED <<world, quota, runvars, labelvars, index, start_index,
                   previous_gid, github_issue, commentvars, backlink, trace>>

(* the for loop: the next entry of the page, or the next page *)
NextIssue ==
    /\ pc = "issue"
    /\ IF entry > Len(Page(source, start_index))
       THEN /\ start_index' = start_index + PageSize
            /\ pc' = "issues_page"
       ELSE /\ pc' = IF options.synchronize_ids THEN "gap" ELSE "dispatch"
            /\ UNCHANGED start_index
    /\ UNCHANGED <<world, quota, runvars, labelvars, index, entry, previous_gid,
                   github_issue, commentvars, backlink, trace>>

(* while previous_gid + 1 < gid: the next missing ID *)
(* the loop stops one ID short of the issue *)
MissingId_Short == previous_gid + 2 < CurIssue.id

MissingId == previous_gid + 1 < CurIssue.id

Gap ==
    /\ pc = "gap"
    /\ IF MissingId
       THEN /\ previous_gid' = previous_gid + 1
            /\ IF previous_gid + 1 \notin DOMAIN existing_issues
               THEN /\ labels' = <<"imported">>
                    /\ ret' = "ph_create"
                    /\ pc' = "label"
               ELSE /\ pc' = "gap"
                    /\ UNCHANGED <<labels, ret>>
       ELSE /\ pc' = "dispatch"
            /\ UNCHANGED <<previous_gid, labels, ret>>
    /\ UNCHANGED <<world, quota, runvars, label_cache, index, start_index, entry,
                   github_issue, commentvars, backlink, trace>>

(* github_repo.create_issue(title, body, labels) of the dummy entry *)
PlaceholderCreate ==
    /\ pc = "ph_create"
    /\ gh_issues' = Append(gh_issues, NewIssue(PlaceholderBody(previous_gid), {"imported"}))
    /\ github_issue' = Len(gh_issues) + 1
    /\ Spend(1)
    /\ trace' = Append(trace, Event("create_issue", Len(gh_issues) + 1))
    /\ pc' = "ph_close"
    /\ UNCHANGED <<static, gh_labels, runvars, labelvars, index, start_index, entry,
                   previous_gid, commentvars, backlink>>

(* github_issue.edit(state = "closed"); existing_issues[previous_gid] = github_issue *)
PlaceholderClose ==
    /\ pc = "ph_close"
    /\ gh_issues' = [gh_issues EXCEPT ![github_issue].state = "closed"]
    /\ existing_issues' = [g \in DOMAIN existing_issues \cup {previous_gid} |->
                              IF g = previous_gid THEN github_issue ELSE existing_issues[g]]
    /\ Spend(1)
    /\ trace' = Append(trace, Event("edit_issue", github_issue))
    /\ pc' = "gap"
    /\ UNCHANGED <<static, gh_labels, runvars, labelvars, issuevars, commentvars, backlink,
                   scanned, issue_map, scan_todo>>

(* gid in existing_issues *)
Exists ==
    /\ pc = "dispatch"
    /\ CurIssue.id \in DOMAIN existing_issues
    /\ github_issue' = existing_issues[CurIssue.id]
    /\ pc' = "get_comments"
    /\ UNCHANGED <<world, quota, runvars, labelvars, index, start_index, entry,
                   previous_gid, commentvars, backlink, trace>>

(* only the first of the filtered statuses is looked at *)
IsFiltered_First(issue) == issue.status = "Invalid"

(* issue.status.text in GOOGLE_STATUS_VALUES_FILTERED *)
IsFiltered(issue) == issue.status \in GOOGLE_STATUS_VALUES_FILTERED

Filtered ==
    /\ pc = "dispatch"
    /\ CurIssue.id \notin DOMAIN existing_issues
    /\ IsFiltered(CurIssue)
    /\ github_issue' = 0
    /\ trace' = Append(trace, Event("skip_filtered", 0))
    /\ pc' = "end_issue"
    /\ UNCHANGED <<world, quota, runvars, labelvars, index, start_index, entry,
                   previous_gid, commentvars, backlink>>

(* gh.rate_limiting[0] < GITHUB_SPARE_REQUESTS *)
RateLimited == quota < GITHUB_SPARE_REQUESTS

(* add_issue_to_github up to the labels: the rate limit check, and in a dry
   run the end of the function *)
AddIssue ==
    /\ pc = "dispatch"
    /\ CurIssue.id \notin DOMAIN existing_issues
    /\ ~IsFiltered(CurIssue)
    /\ trace' = Append(trace, Event("rate_check", 0))
    /\ IF RateLimited
       THEN /\ pc' = "aborted"
            /\ reason' = "rate"
            /\ UNCHANGED <<labels, ret, github_issue>>
       ELSE /\ UNCHANGED reason
            /\ IF options.dry_run
               THEN /\ github_issue' = 0
                    /\ pc' = IF CurIssue.owner /\ options.assign_owner
                             THEN "get_user" ELSE "end_issue"
                    /\ UNCHANGED <<labels, ret>>
               ELSE /\ labels' = IssueLabels(CurIssue, options.omit_priority)
                    /\ ret' = "create_issue"
                    /\ pc' = "label"
                    /\ UNCHANGED github_issue
    /\ UNCHANGED <<world, quota, run, options, first, label_cache, index,
                   start_index, entry, previous_gid, commentvars, backlink>>

(* github_repo.create_issue(title, body, labels) *)
CreateIssue ==
    /\ pc = "create_issue"
    /\ gh_issues' = Append(gh_issues,
           NewIssue(IssueBody(CurIssue),
                    {IssueLabels(CurIssue, options.omit_priority)[k] :
                        k \in 1..Len(IssueLabels(CurIssue, options.omit_priority))}))
    /\ github_issue' = Len(gh_issues) + 1
    /\ Spend(1)
    /\ trace' = Append(trace, Event("create_issue", Len(gh_issues) + 1))
    /\ pc' = IF CurIssue.owner /\ options.assign_owner THEN "get_user" ELSE "get_comments"
    /\ UNCHANGED <<static, gh_labels, runvars, labelvars, index, start_index, entry,
                   previous_gid, commentvars, backlink>>

(* assignee = gh.get_user(github_user.login) *)
GetUser ==
    /\ pc = "get_user"
    /\ Spend(1)
    /\ trace' = Append(trace, Event("get_user", 0))
    /\ pc' = IF options.dry_run THEN "end_issue" ELSE "assign"
    /\ UNCHANGED <<world, runvars, labelvars, index, issuevars, commentvars,
                   backlink>>

(* github_issue.edit(assignee = assignee) *)
Assign ==
    /\ pc = "assign"
    /\ gh_issues' = [gh_issues EXCEPT ![github_issue].assignee = TRUE]
    /\ Spend(1)
    /\ trace' = Append(trace, Event("edit_issue", github_issue))
    /\ pc' = "get_comments"
    /\ UNCHANGED <<static, gh_labels, runvars, labelvars, index, issuevars,
                   commentvars, backlink>>

(***************************************************************************)
(* add_comments_to_issue                                                   *)
(***************************************************************************)

(* github_issue.get_comments(), normalised *)
GetComments ==
    /\ pc = "get_comments"
    /\ existing_comments' = {Normalize(gh_issues[github_issue].comments[k]) :
                                k \in 1..Len(gh_issues[github_issue].comments)}
    /\ c_start_index' = 1
    /\ comments' = <<>>
    /\ Spend(1)
    /\ trace' = Append(trace, Event("get_comments", github_issue))
    /\ pc' = "comments_page"
    /\ UNCHANGED <<world, runvars, labelvars, index, issuevars, backlink>>

(* gc.get_comments and the list comprehension: the comments of the page to
   add.  None to add ends the loop. *)
CommentsPage ==
    /\ pc = "comments_page"
    /\ trace' = Append(trace, Event("gc_get_comments", c_start_index))
    /\ LET feed == Page(CurIssue.comments, c_start_index)
       IN  IF PageRaises(feed)
           THEN /\ pc' = "aborted"
                /\ reason' = "error"
                /\ UNCHANGED comments
           ELSE /\ UNCHANGED reason
                /\ comments' = NewComments(feed, existing_comments, options.base_id)
                /\ pc' = IF NewComments(feed, existing_comments, options.base_id) = <<>>
                         THEN AfterComments(gh_issues)
                         ELSE IF options.dry_run THEN "skip_comments" ELSE "create_comment"
    /\ UNCHANGED <<world, quota, run, options, first, labelvars, index, issuevars,
                   existing_comments, c_start_index, backlink>>

(* add_comment_to_github: github_issue.create_comment(body) *)
CreateComment ==
    /\ pc = "create_comment"
    /\ gh_issues' = [gh_issues EXCEPT ![github_issue].comments =
                        Append(@, format_comment(Head(comments), options.base_id))]
    /\ comments' = Tail(comments)
    /\ Spend(1)
    /\ trace' = Append(trace, Event("create_comment", github_issue))
    /\ IF Tail(comments) = <<>>
       THEN /\ c_start_index' = c_start_index + PageSize
            /\ pc' = "comments_page"
       ELSE /\ pc' = "create_comment"
            /\ UNCHANGED c_start_index
    /\ UNCHANGED <<static, gh_labels, runvars, labelvars, index, issuevars,
                   existing_comments, backlink>>

(* add_comment_to_github in a dry run: nothing is sent *)
SkipComments ==
    /\ pc = "skip_comments"
    /\ comments' = <<>>
    /\ c_start_index' = c_start_index + PageSize
    /\ pc' = "comments_page"
    /\ UNCHANGED <<world, quota, runvars, labelvars, index, issuevars,
                   existing_comments, backlink, trace>>

(* github_issue.edit(state = issue.state.text) *)
StateEdit ==
    /\ pc = "state_edit"
    /\ gh_issues' = [gh_issues EXCEPT ![github_issue].state = CurIssue.state]
    /\ Spend(1)
    /\ trace' = Append(trace, Event("edit_issue", github_issue))
    /\ pc' = "end_issue"
    /\ UNCHANGED <<static, gh_labels, runvars, labelvars, index, issuevars,
                   commentvars, backlink>>

(* previous_gid = gid, and on to the next entry *)
EndIssue ==
    /\ pc = "end_issue"
    /\ previous_gid' = CurIssue.id
    /\ entry' = entry + 1
    /\ pc' = "issue"
    /\ UNCHANGED <<world, quota, runvars, labelvars, index, start_index,
                   github_issue, commentvars, backlink, trace>>

(***************************************************************************)
(* map_google_id_to_github                                                 *)
(***************************************************************************)

(* the lookahead (?! \(G) fails at position p *)
ParenG(s, p) == Ahead(s, p, " (G", TRUE)

(* (\d+(?! \(G)) at position j: the number of digits matched, 0 for no match.
   \d+ is greedy and gives one digit back when the lookahead fails. *)
DigitsNotG(s, j) ==
    LET run_ == DigitRun(s, j)
    IN  IF run_ >= 1 /\ ~ParenG(s, j + run_) THEN run_
        ELSE IF run_ >= 2 THEN run_ - 1
        ELSE 0

NoMatch == [alt |-> 0, from |-> 0, digits |-> 0, end |-> 0]

(* "issue", in any case, from token i on or as the end of token i: the
   position of the token after it, 0 when it is not there *)
WordEnd(s, i) ==
    IF Len(s[i]) > Len(IssueTok)
    THEN IF StrMatches(SubSeq(s[i], Len(s[i]) - Len(IssueTok) + 1, Len(s[i])), IssueTok, TRUE)
         THEN i + 1 ELSE 0
    ELSE Consume(s, i, IssueTok, TRUE)

(* issue ?#?(\d+(?! \(G)), IGNORECASE *)
Alt1(s, i) ==
    IF WordEnd(s, i) # 0
    THEN LET j0 == WordEnd(s, i)
             j1 == IF j0 <= Len(s) /\ s[j0] = " " THEN j0 + 1 ELSE j0
             j2 == IF j1 <= Len(s) /\ s[j1] = "#" THEN j1 + 1 ELSE j1
             k == DigitsNotG(s, j2)
         IN  IF k >= 1 THEN [alt |-> 1, from |-> j2, digits |-> k, end |-> j2 + k - 1]
             ELSE NoMatch
    ELSE NoMatch

(* [^\n] #(\d+(?! \(G)) *)
Alt2(s, i) ==
    LET j == IF s[i] # NL /\ i + 2 <= Len(s) /\ s[i + 1] = " " /\ s[i + 2] = "#"
             THEN i + 3
             ELSE IF /\ Len(s[i]) >= 2
                     /\ SubSeq(s[i], Len(s[i]), Len(s[i])) = " "
                     /\ SubSeq(s[i], Len(s[i]) - 1, Len(s[i]) - 1) # NL
                     /\ i + 1 <= Len(s) /\ s[i + 1] = "#"
                  THEN i + 2
                  ELSE 0
        k == IF j = 0 THEN 0 ELSE DigitsNotG(s, j)
    IN  IF k >= 1 THEN [alt |-> 2, from |-> j, digits |-> k, end |-> j + k - 1]
        ELSE NoMatch

(* the permalink is matched in the footer as well *)
Alt3_InFooter(s, i) ==
    LET j == Consume(s, i, UrlTok, TRUE)
        k == IF j = 0 THEN 0 ELSE DigitsNotG(s, j)
    IN  IF k >= 1 THEN [alt |-> 3, from |-> j, digits |-> k, end |-> j + k - 1]
        ELSE NoMatch

(* (?<!_Original issue: )GOOGLE_URL_RE(?! \(G), IGNORECASE *)
Alt3(s, i) ==
    LET j == IF ConsumeBack(s, i - 1, OrigTok, TRUE) THEN 0 ELSE Consume(s, i, UrlTok, TRUE)
        k == IF j = 0 THEN 0 ELSE DigitsNotG(s, j)
    IN  IF k >= 1 THEN [alt |-> 3, from |-> j, digits |-> k, end |-> j + k - 1]
        ELSE NoMatch

(* issue_re matched at token i: the alternative that starts first, and among
   those that start at the same character the first of the pattern *)
MatchAt(s, i) ==
    IF Alt1(s, i).alt # 0 THEN Alt1(s, i)
    ELSE IF Alt3(s, i).alt # 0 THEN Alt3(s, i)
    ELSE Alt2(s, i)

(* "&#8203;%d (Github: #%d)" % (google_id, google_id_to_github[google_id]) *)
NoteToInclude(google_id, github_id) ==
    <<ZW>> \o Dec(google_id) \o <<" ", GhTok, " ", "#">> \o Dec(github_id) \o <<")">>

(* re.sub("\d", note_to_include, match_string) *)
RECURSIVE SubDigits(_, _)
SubDigits(ms, note) ==
    IF ms = <<>> THEN <<>>
    ELSE (IF IsDigit(Head(ms)) THEN note ELSE <<Head(ms)>>) \o SubDigits(Tail(ms), note)

replace_issue_number(s, i, m, map) ==
    LET match_string == SubSeq(s, i, m.end)
        google_id == ParseInt(SubSeq(s, m.from, m.from + m.digits - 1))
    IN  IF google_id \notin DOMAIN map THEN match_string
        ELSE IF m.alt = 3
             THEN match_string \o <<" ", GhTok, " ", "#">> \o Dec(map[google_id]) \o <<")">>
             ELSE SubDigits(match_string, NoteToInclude(google_id, map[google_id]))

(* issue_re.sub(replace_issue_number, text): m is the match found at token i,
   the scan goes on after it *)
RECURSIVE SubFrom(_, _, _)
SubFrom(s, i, map) ==
    IF i > Len(s) THEN <<>>
    ELSE CHOOSE out \in
             { IF m.alt # 0
               THEN replace_issue_number(s, i, m, map) \o SubFrom(s, m.end + 1, map)
               ELSE <<s[i]>> \o SubFrom(s, i + 1, map) : m \in {MatchAt(s, i)} } : TRUE

IssueReSub(text, map) == SubFrom(text, 1, map)

(* map_google_id_to_github: list(github_repo.get_issues(state='open')) *)
MapGetOpen ==
    /\ pc = "map_scan"
    /\ Spend(1)
    /\ trace' = Append(trace, Event("get_issues", 0))
    /\ pc' = "map_scan_closed"
    /\ UNCHANGED <<world, runvars, labelvars, index, issuevars, commentvars, backlink>>

(* + list(github_repo.get_issues(state='closed')), and the scan that sends
   nothing: source ID -> Github number *)
MapScan ==
    /\ pc = "map_scan_closed"
    /\ google_id_to_github' = IssueMap(gh_issues, AllIssues(gh_issues))
    /\ todo' = AllIssues(gh_issues)
    /\ Spend(1)
    /\ trace' = Append(trace, Event("get_issues", 0))
    /\ pc' = "map_issue"
    /\ UNCHANGED <<world, runvars, labelvars, index, issuevars, commentvars, cidx>>

(* every Github issue is taken for an imported one *)
MapIssue_All ==
    /\ pc = "map_issue"
    /\ IF todo = <<>> THEN pc' = "done" ELSE pc' = "edit_body"
    /\ UNCHANGED <<world, quota, runvars, labelvars, index, issuevars, commentvars,
                   google_id_to_github, todo, cidx, trace>>

(* for issue in github_issues: imported or skipped *)
MapIssue ==
    /\ pc = "map_issue"
    /\ IF todo = <<>> THEN pc' = "done" /\ UNCHANGED todo
       ELSE IF Head(todo) \in Range(google_id_to_github)
            THEN pc' = "edit_body" /\ UNCHANGED todo
            ELSE pc' = "map_issue" /\ todo' = Tail(todo)
    /\ UNCHANGED <<world, quota, runvars, labelvars, index, issuevars, commentvars,
                   google_id_to_github, cidx, trace>>

(* issue.edit(body = issue_re.sub(replace_issue_number, issue.body)) *)
EditBody ==
    /\ pc = "edit_body"
    /\ gh_issues' = [gh_issues EXCEPT ![Head(todo)].body = IssueReSub(@, google_id_to_github)]
    /\ Spend(1)
    /\ trace' = Append(trace, Event("edit_issue", Head(todo)))
    /\ pc' = "map_get_comments"
    /\ UNCHANGED <<static, gh_labels, runvars, labelvars, index, issuevars,
                   commentvars, backlink>>

(* issue.get_comments() *)
MapGetComments ==
    /\ pc = "map_get_comments"
    /\ Spend(1)
    /\ trace' = Append(trace, Event("get_comments", Head(todo)))
    /\ cidx' = 1
    /\ IF gh_issues[Head(todo)].comments = <<>>
       THEN pc' = "map_issue" /\ todo' = Tail(todo)
       ELSE pc' = "edit_comment" /\ UNCHANGED todo
    /\ UNCHANGED <<world, runvars, labelvars, index, issuevars, commentvars,
                   google_id_to_github>>

(* comment.edit(body = issue_re.sub(replace_issue_number, comment.body)) *)
EditComment ==
    /\ pc = "edit_comment"
    /\ gh_issues' = [gh_issues EXCEPT ![Head(todo)].comments[cidx] =
                        IssueReSub(@, google_id_to_github)]
    /\ Spend(1)
    /\ trace' = Append(trace, Event("edit_comment", Head(todo)))
    /\ cidx' = cidx + 1
    /\ IF cidx = Len(gh_issues[Head(todo)].comments)
       THEN pc' = "map_issue" /\ todo' = Tail(todo)
       ELSE pc' = "edit_comment" /\ UNCHANGED todo
    /\ UNCHANGED <<static, gh_labels, runvars, labelvars, index, issuevars,
                   commentvars, google_id_to_github>>

Next ==
    \/ Start
    \/ Rerun
    \/ CallFails
    \/ Startup
    \/ get_existing_github_issues
    \/ LabelCached
    \/ GetLabel
    \/ GetLabelFails
    \/ CreateLabel
    \/ LabelsDone
    \/ IssuesPage
    \/ NextIssue
    \/ Gap
    \/ PlaceholderCreate
    \/ PlaceholderClose
    \/ Exists
    \/ Filtered
    \/ AddIssue
    \/ CreateIssue
    \/ GetUser
    \/ Assign
    \/ GetComments
    \/ CommentsPage
    \/ CreateComment
    \/ SkipComments
    \/ StateEdit
    \/ EndIssue
    \/ MapGetOpen
    \/ MapScan
    \/ MapIssue
    \/ EditBody
    \/ MapGetComments
    \/ EditComment


Spec == Init /\ [][Next]_vars

(***************************************************************************)
(* Properties                                                              *)
(***************************************************************************)

(* the run is not past get_existing_github_issues *)
Scanning ==
    pc \in {"start", "login", "get_owner", "get_repo", "scan", "scan_closed", "scan_issue",
            "scan_labels"}

MutatingOps == {"create_issue", "edit_issue", "create_comment", "edit_comment", "create_label"}

Events(ops) == {k \in 1..Len(trace) : trace[k].op \in ops}

SourceIds == {source[k].id : k \in 1..Len(source)}

(* a run of the migration proper, sending what it builds *)
Migrates(o) == ~o.dry_run /\ ~o.assign_ids

(* the migration was run to completion on the empty repository, and run to
   completion again with the same options *)
RanTwice ==
    /\ run = "rerun" /\ pc = "done"
    /\ first.pc = "done" /\ first.options = options
    /\ Migrates(options)

(* C1: Idempotence of the full migration.  After the migration ran to
   completion on an empty Github repository and ran to completion again, the
   repository holds the issues and comments the first run left; the second
   run found every source ID that is not filtered in the index of existing
   issues and created no issue. *)
C1_Idempotent ==
    RanTwice =>
        /\ gh_issues = first.gh_issues
        /\ Events({"create_issue", "create_comment"}) = {}
        /\ \A k \in 1..Len(source) :
              source[k].status \notin GOOGLE_STATUS_VALUES_FILTERED
                  => source[k].id \in scanned

C1_Witness ==
    /\ RanTwice
    /\ Len(gh_issues) >= 2
    /\ \E n \in 1..Len(gh_issues) : Len(gh_issues[n].comments) >= 1
    /\ Events({"get_comments"}) # {}

(* C2: A dry run makes no mutating call: with the dry-run option set, no
   issue, comment or label is created and none is edited. *)
C2_DryRunSendsNothing ==
    options.dry_run => Events(MutatingOps) = {}

(* the bodies format_comment gives the comments of a list *)
FormatAll(cs, base_id) == [k \in 1..Len(cs) |-> format_comment(cs[k], base_id)]

(* the comments sent to Github for the issue at hand, in the order sent *)
CreatedComments ==
    LET cs == gh_issues[github_issue].comments
        c == Cardinality({k \in Events({"create_comment"}) : trace[k].gid = CurIssue.id})
    IN  SubSeq(cs, Len(cs) - c + 1, Len(cs))

(* the comments of the issue at hand have been synced *)
CommentsSynced ==
    /\ pc \in {"state_edit", "end_issue"}
    /\ github_issue # 0
    /\ Migrates(options)

(* C3: Comment de-duplication.  When the comments of an issue have been
   synced, the comments created are exactly the source comments to migrate
   whose transformed body was not among the normalized bodies of the
   comments the Github issue had, in source order. *)
C3_CreatesTheMissingComments ==
    CommentsSynced =>
        CreatedComments =
            FormatAll(NewComments(CurIssue.comments, existing_comments, options.base_id),
                      options.base_id)

(* C4: Filtering.  A source issue with a filtered status ("Invalid",
   "Duplicate") whose ID is not in the index of existing issues gets no
   Github issue, its comments are not fetched and no state is edited for
   it. *)
C4_FilteredIsSkipped ==
    (~Scanning /\ ~options.assign_ids) =>
        \A i \in 1..Len(source) :
            (source[i].status \in {"Invalid", "Duplicate"} /\ source[i].id \notin scanned) =>
                /\ \A k \in 1..Len(trace) :
                      trace[k].src = source[i].id =>
                          trace[k].op = "skip_filtered"
                /\ \A n \in 1..Len(gh_issues) : IdSearch(gh_issues[n].body) # source[i].id

(* a filtered issue was passed over and the run went on to migrate another *)
C4_Witness ==
    /\ pc = "done" /\ Migrates(options)
    /\ \E k \in Events({"skip_filtered"}) :
          /\ trace[k].src \notin scanned
          /\ \E j \in Events({"create_issue"}) : k < j

(* the IDs below the issue at hand that no source issue has *)
MissingBelow(gid) == {m \in 1..(gid - 1) : m \notin SourceIds}

CreatesOf(m) == {k \in Events({"create_issue"}) : trace[k].src = m}

IsPlaceholder(issue) == issue.body # <<>> /\ issue.body[1] = SkipTok

(* C5: ID-gap placeholders.  With synchronize-ids, when the source issue G
   is reached, every missing ID below it that was not in the index of
   existing issues has got exactly one placeholder, which carries the
   back-reference to that ID and is closed; the placeholders were created in
   ascending order of ID; an ID that was in the index got none.  Source IDs
   1 and 3, both migrated to an empty repository, give three issues, the
   second the closed placeholder of ID 2. *)
C5_Placeholders ==
    /\ (options.synchronize_ids /\ pc = "dispatch") =>
          /\ \A m \in MissingBelow(CurIssue.id) :
                IF m \in scanned THEN CreatesOf(m) = {}
                ELSE \E k \in CreatesOf(m) :
                        /\ CreatesOf(m) = {k}
                        /\ IdSearch(gh_issues[trace[k].n].body) = m
                        /\ IsPlaceholder(gh_issues[trace[k].n])
                        /\ gh_issues[trace[k].n].state = "closed"
          /\ \A k, l \in Events({"create_issue"}) :
                (k < l /\ trace[k].src \notin SourceIds /\ trace[l].src \notin SourceIds)
                    => trace[k].src < trace[l].src
          /\ \A k \in Events({"create_issue"}) :
                trace[k].src \in SourceIds \cup MissingBelow(CurIssue.id)
    /\ (/\ run = "first" /\ pc = "done" /\ options.synchronize_ids /\ Migrates(options)
        /\ SourceIds = {1, 3}
        /\ \A i \in 1..Len(source) : source[i].status \notin {"Invalid", "Duplicate"}) =>
          /\ Len(gh_issues) = 3
          /\ IdSearch(gh_issues[1].body) = 1
          /\ gh_issues[2].body = PlaceholderBody(2)
          /\ IdSearch(gh_issues[2].body) = 2
          /\ gh_issues[2].state = "closed"
          /\ IdSearch(gh_issues[3].body) = 3

(* the run reaches an issue below which one missing ID was in the index and
   another has just got its placeholder *)
C5_Witness ==
    /\ options.synchronize_ids /\ pc = "dispatch"
    /\ \E m \in MissingBelow(CurIssue.id) : m \in scanned
    /\ \E m \in MissingBelow(CurIssue.id) : m \notin scanned /\ CreatesOf(m) # {}

(* C6: Numeric alignment under synchronize-ids.  After a run with
   synchronize-ids on an empty repository, every Github issue that carries
   the back-reference to source ID G has number G, whatever the statuses of
   the source issues. *)
C6_NumbersAligned ==
    (run = "first" /\ pc = "done" /\ options.synchronize_ids /\ Migrates(options)) =>
        \A n \in 1..Len(gh_issues) :
            IdSearch(gh_issues[n].body) >= 0 => IdSearch(gh_issues[n].body) = n

(***************************************************************************)
(* issue_re.sub on its own: a text with one reference, rewritten pass after *)
(* pass as map_google_id_to_github rewrites a body each time it is run      *)
(***************************************************************************)

MaxPasses == 2

(* the shapes of a reference: "issue #N", "issue N", "Issue#N", " #N", the
   permalink *)
RefForms ==
    { <<IssueTok, " ", "#">>, <<IssueTok, " ">>, <<IssueCapTok, "#">>, <<"x", " ", "#">>,
      <<UrlTok>> }

RefIds == {5, 12}

(* google_id_to_github: the issues migrated and their Github numbers *)
RefMaps ==
    { (5 :> 42) @@ (12 :> 7),
      (5 :> 5) @@ (12 :> 12),
      (1 :> 1) @@ (5 :> 6) @@ (12 :> 13),
      (1 :> 43) @@ (5 :> 47) @@ (12 :> 54) @@ (42 :> 55),
      (3 :> 1) }

RewriteInit ==
    /\ \E f \in RefForms : \E n \in RefIds :
          rw_text = [id |-> n, seq |-> << <<"s", "e", "e", " ">> \o f \o Dec(n) \o <<".">> >>]
    /\ rw_map \in RefMaps
    /\ rw_pass = 0
    /\ arg_comment = Cm(<<>>, 0) /\ decision = <<>>
    /\ source = <<>>
    /\ quota = 0
    /\ gh_issues = <<>>
    /\ gh_labels = {}
    /\ run = "first"
    /\ options = Opt(FALSE, FALSE, TRUE, FALSE, FALSE, 0)
    /\ pc = "edit_body"
    /\ reason = ""
    /\ label_cache = {}
    /\ existing_issues = Empty
    /\ start_index = 1 /\ entry = 1 /\ previous_gid = 0 /\ github_issue = 0
    /\ labels = <<>> /\ ret = ""
    /\ existing_comments = {} /\ c_start_index = 1 /\ comments = <<>>
    /\ google_id_to_github = Empty /\ todo = <<>> /\ cidx = 1
    /\ trace = <<>>
    /\ scanned = {}
    /\ issue_map = Empty /\ scan_todo = <<>>
    /\ first = NoRun

(* issue_re.sub(replace_issue_number, body) of the next pass *)
RewritePass ==
    /\ rw_pass < MaxPasses
    /\ rw_text' = [rw_text EXCEPT !.seq = Append(@, IssueReSub(@[Len(@)], rw_map))]
    /\ rw_pass' = rw_pass + 1
    /\ UNCHANGED <<source, rw_map, arg_comment, decision, gh_issues, gh_labels, quota, run,
                   options, pc, reason, labelvars, index, issuevars, commentvars, backlink,
                   trace, first>>

RewriteNext == RewritePass

RewriteSpec == RewriteInit /\ [][RewriteNext]_vars

(* the number of places of s where p occurs *)
Occurrences(s, p) == Cardinality({i \in 1..Len(s) : StartsWithAt(s, i, p)})

(* C7: The cross-reference rewrite is idempotent.  A text that refers
   ("issue #N", "issue N", " #N", the permalink) to a migrated source ID N
   with Github number D holds, after one pass, the digits of N still and
   exactly one annotation, which names D; a second pass leaves it as the
   first pass left it. *)
C7_RewriteOnce ==
    (rw_pass >= 1 /\ rw_text.id \in DOMAIN rw_map) =>
        LET once == rw_text.seq[2]
        IN  /\ Occurrences(once, Dec(rw_text.id)) >= 1
            /\ Occurrences(once, <<GhTok>>) = 1
            /\ Occurrences(once, <<GhTok, " ", "#">> \o Dec(rw_map[rw_text.id]) \o <<")">>) = 1
            /\ rw_pass >= 2 => rw_text.seq[3] = once

(* a comment with no text and a merged-into marker *)
IsBareMerge(comment) == ~HasText(comment) /\ comment.merged # 0

(* s without its emphasis marks *)
RECURSIVE Unmarked(_)
Unmarked(s) ==
    IF s = <<>> THEN <<>>
    ELSE (IF Head(s) = "_" THEN <<>> ELSE <<Head(s)>>) \o Unmarked(Tail(s))

(* C8: Merge comment translation.  A source comment with no body and a
   merged-into marker M is migrated: the sync of the comments does not fail
   on it, and the comment created reads "This issue is a duplicate of
   #<base-id + M>". *)
C8_MergeTranslated ==
    /\ reason # "error"
    /\ CommentsSynced =>
          \A k \in 1..Len(CurIssue.comments) :
              IsBareMerge(CurIssue.comments[k]) =>
                  \E j \in 1..Len(gh_issues[github_issue].comments) :
                      Unmarked(gh_issues[github_issue].comments[j]) =
                          <<DupTok, " ", "#">>
                              \o Dec(options.base_id + CurIssue.comments[k].merged)

(* a content with the zero-width marker put after the "#" of every line that
   begins with "#" or " #" *)
RECURSIVE EscapeFrom(_, _, _)
EscapeFrom(s, i, bol) ==
    IF i > Len(s) THEN <<>>
    ELSE IF bol /\ s[i] = "#" THEN <<"#", ZW>> \o EscapeFrom(s, i + 1, FALSE)
    ELSE IF bol /\ s[i] = " " /\ i < Len(s) /\ s[i + 1] = "#"
         THEN <<" ", "#", ZW>> \o EscapeFrom(s, i + 2, FALSE)
    ELSE <<s[i]>> \o EscapeFrom(s, i + 1, s[i] = NL)

EscapeHeadings(content) == EscapeFrom(content, 1, TRUE)

SourceIssue(gid) == source[CHOOSE i \in 1..Len(source) : source[i].id = gid]

(* C9: Heading escape.  The body of a created issue and the body of every
   created comment hold the source content with the zero-width marker after
   the "#" of every line that begins with "#" or " #", the first line
   included, and nothing else changed. *)
C9_HeadingsEscaped ==
    (run = "first" /\ Migrates(options)) =>
        \A k \in Events({"create_issue"}) :
            trace[k].src \in SourceIds =>
                LET issue == SourceIssue(trace[k].src)
                    made == gh_issues[trace[k].n]
                IN  /\ made.body = <<AuthorTok, "_", NL, NL>> \o EscapeHeadings(issue.content)
                                       \o <<NL, NL, NL>> \o Footer(issue.link)
                    /\ \A j \in 1..Len(made.comments) :
                          \E c \in 1..Len(issue.comments) :
                              \/ issue.comments[c].merged # 0
                              \/ made.comments[j] =
                                    <<FromTok, "_", NL>>
                                        \o EscapeHeadings(issue.comments[c].text)

(* C10: Rate governor.  The remaining quota is checked for a source issue
   before any mutating call made for that issue (placeholder, issue,
   comment, state edit); when the check finds it below the margin of 50 the
   run ends and no mutating call has been made for that issue. *)
C10_QuotaCheckedFirst ==
    ~options.assign_ids =>
        /\ \A k \in Events(MutatingOps) :
              \E j \in 1..(k - 1) :
                  trace[j].op = "rate_check" /\ trace[j].gid = trace[k].gid
        /\ reason = "rate" =>
              /\ pc = "aborted"
              /\ \A k \in Events(MutatingOps) : trace[k].gid # trace[Len(trace)].gid
        /\ \A j, k \in Events({"rate_check"}) : trace[j].gid = trace[k].gid => j = k

(* the step is the exception being raised: the run ends here *)
Aborts == pc # "aborted" /\ pc' = "aborted"

(* C11: Abort is immediate and final.  A run that has recorded a failure
   (a request that failed, the quota check, an error) is over; the step that
   fails changes nothing on Github; a failed enumeration of the existing
   issues comes before any mutating call; and after the abort nothing more
   happens in that run: the only step left is to start the program anew. *)
C11_AbortIsFinal ==
    /\ [](reason # "" => pc = "aborted")
    /\ [][/\ Aborts => /\ gh_issues' = gh_issues /\ gh_labels' = gh_labels
                       /\ reason' # ""
                       /\ reason' = "failed" => trace' = trace
                       /\ pc \in {"scan", "scan_closed", "scan_labels"}
                             => Events(MutatingOps) = {}
          /\ pc = "aborted" => run = "first" /\ run' = "rerun" /\ trace' = <<>>]_vars

C11_Witness ==
    /\ pc = "aborted"
    /\ reason = "failed"
    /\ Events({"create_issue"}) # {}
    /\ start_index + entry - 1 < Len(source)

(***************************************************************************)
(* The backlink pass on a repository that holds more than migrated issues  *)
(***************************************************************************)

MaxRepo == 3

(* Github issues as a pass may find them: migrated from issue 1 or 3 (a
   reference in the body and in the comments), a dummy entry for 2, and an
   issue that was never migrated but mentions issues all the same *)
RepoIssues ==
    { [body |-> <<AuthorTok, "_", NL, NL, "s", " ", IssueTok, " ", "#", "3", NL, NL, NL>>
                    \o Footer(GoogleUrl(1)),
       state |-> "open", labels |-> {"imported"}, assignee |-> FALSE,
       comments |-> << <<FromTok, "_", NL, "s", " ", "#", "1">> >>],
      [body |-> PlaceholderBody(2),
       state |-> "closed", labels |-> {"imported"}, assignee |-> FALSE,
       comments |-> <<>>],
      [body |-> <<AuthorTok, "_", NL, NL, "a", NL, NL, NL>> \o Footer(GoogleUrl(3)),
       state |-> "closed", labels |-> {"imported"}, assignee |-> FALSE,
       comments |-> << <<FromTok, "_", NL, IssueTok, " ", "2">>, <<FromTok, "_", NL, "b">> >>],
      [body |-> <<"s", " ", IssueTok, " ", "#", "1">> \o GoogleUrl(3),
       state |-> "open", labels |-> {}, assignee |-> FALSE,
       comments |-> << <<"s", " ", "#", "3">> >>] }

Repos == UNION {[1..n -> RepoIssues] : n \in 1..MaxRepo}

(* the program is started with --assign-ids on such a repository;
   first.gh_issues keeps the repository as the pass found it *)
BacklinkInit ==
    /\ source = <<>>
    /\ quota = 5000
    /\ \E repo \in Repos :
          /\ gh_issues = repo
          /\ first = [options |-> Opt(FALSE, FALSE, TRUE, FALSE, FALSE, 0), pc |-> "none",
                      gh_issues |-> repo]
    /\ gh_labels = {"imported"}
    /\ run = "first"
    /\ options = Opt(FALSE, FALSE, TRUE, FALSE, FALSE, 0)
    /\ pc = "scan"
    /\ reason = ""
    /\ label_cache = {}
    /\ existing_issues = Empty
    /\ start_index = 1 /\ entry = 1 /\ previous_gid = 0 /\ github_issue = 0
    /\ labels = <<>> /\ ret = ""
    /\ existing_comments = {} /\ c_start_index = 1 /\ comments = <<>>
    /\ google_id_to_github = Empty /\ todo = <<>> /\ cidx = 1
    /\ trace = <<>>
    /\ scanned = {}
    /\ issue_map = Empty /\ scan_todo = <<>>
    /\ rw_text = <<>> /\ rw_map = Empty /\ rw_pass = 0
    /\ arg_comment = Cm(<<>>, 0) /\ decision = <<>>

BacklinkNext ==
    \/ get_existing_github_issues
    \/ MapGetOpen
    \/ MapScan
    \/ MapIssue
    \/ EditBody
    \/ MapGetComments
    \/ EditComment
    \/ CallFails

BacklinkSpec == BacklinkInit /\ [][BacklinkNext]_vars

(* the calls of the run that edit Github issue n *)
EditsOf(ops, n) == {k \in Events(ops) : trace[k].n = n}

(* C12: Backlink pass frame.  With --assign-ids no issue, comment or label is
   created; a Github issue whose number is not a value of google_id_to_github
   keeps its body, state and comments and gets no edit call; and when the
   pass is over each issue of the map got one edit of its body and one edit
   per comment. *)
C12_BacklinkFrame ==
    options.assign_ids =>
        /\ Events({"create_issue", "create_comment", "create_label"}) = {}
        /\ Len(gh_issues) = Len(first.gh_issues)
        /\ \A n \in 1..Len(gh_issues) :
              /\ Len(gh_issues[n].comments) = Len(first.gh_issues[n].comments)
              /\ n \notin Range(google_id_to_github) =>
                    /\ gh_issues[n] = first.gh_issues[n]
                    /\ EditsOf({"edit_issue", "edit_comment"}, n) = {}
              /\ (pc = "done" /\ n \in Range(google_id_to_github)) =>
                    /\ Cardinality(EditsOf({"edit_issue"}, n)) = 1
                    /\ Cardinality(EditsOf({"edit_comment"}, n)) = Len(gh_issues[n].comments)

C12_Witness ==
    /\ options.assign_ids
    /\ pc = "done"
    /\ \E n, m \in 1..Len(gh_issues) :
          /\ n \notin Range(google_id_to_github)
          /\ IdSearch(gh_issues[n].body) < 0
          /\ gh_issues[n].comments # <<>>
          /\ m \in Range(google_id_to_github)
          /\ gh_issues[m] # first.gh_issues[m]
          /\ Cardinality(EditsOf({"edit_comment"}, m)) = 2

(* C13: Comment pagination completeness.  When the comments of an issue have
   been synced, the pages of source comments were fetched up to an empty
   page, and every source comment to migrate is on the Github issue. *)
C13_AllPagesFetched ==
    CommentsSynced =>
        /\ \E k \in Events({"gc_get_comments"}) :
              /\ trace[k].gid = CurIssue.id
              /\ Page(CurIssue.comments, trace[k].n) = <<>>
        /\ \A c \in 1..Len(CurIssue.comments) :
              should_migrate_comment(CurIssue.comments[c]) =>
                  \E j \in 1..Len(gh_issues[github_issue].comments) :
                      Normalize(gh_issues[github_issue].comments[j])
                          = format_comment(CurIssue.comments[c], options.base_id)

(* the body of Github issue n ends with the back-reference to source ID g *)
CarriesRef(n, g) ==
    LET b == gh_issues[n].body
        f == Footer(GoogleUrl(g))
    IN  Len(b) >= Len(f) /\ SubSeq(b, Len(b) - Len(f) + 1, Len(b)) = f

RefIdsOnGithub == SourceIds \cup 1..4

(* C14: Exactly-once issue creation.  Whatever runs were made on the empty
   repository, completed or aborted anywhere, with or without
   --synchronize-ids, no two Github issues carry the back-reference to the
   same source ID. *)
C14_OneIssuePerSourceId ==
    \A n, m \in 1..Len(gh_issues) :
        \A g \in RefIdsOnGithub :
            (CarriesRef(n, g) /\ CarriesRef(m, g)) => n = m

(* a run was aborted after it had created issues, and the re-run, which
   completed, created the rest: a dummy entry and an issue *)
C14_Witness ==
    /\ run = "rerun" /\ pc = "done" /\ Migrates(options)
    /\ first.pc = "aborted" /\ first.gh_issues # <<>>
    /\ options.synchronize_ids
    /\ \E j, k \in Events({"create_issue"}) :
          /\ IsPlaceholder(gh_issues[trace[j].n])
          /\ ~IsPlaceholder(gh_issues[trace[k].n])
    /\ \A n \in 1..Len(gh_issues) : \E g \in RefIdsOnGithub : CarriesRef(n, g)

(* C15: Placeholder closure survives abort and re-run.  After a run that was
   aborted, wherever, and a re-run with --synchronize-ids that completed,
   every dummy entry on Github is closed. *)
C15_PlaceholdersClosed ==
    (/\ run = "rerun" /\ pc = "done"
     /\ first.pc = "aborted"
     /\ options.synchronize_ids /\ ~options.assign_ids) =>
        \A n \in 1..Len(gh_issues) :
            IsPlaceholder(gh_issues[n]) => gh_issues[n].state = "closed"

(* the state Github issue n had when the run began; an issue the run created
   is created open *)
StateBefore(n) ==
    IF run = "rerun" /\ n <= Len(first.gh_issues) THEN first.gh_issues[n].state ELSE "open"

(* the calls made for the issue at hand *)
CallsFor(ops) == {k \in Events(ops) : trace[k].gid = CurIssue.id /\ trace[k].src = CurIssue.id}

(* its state edits: the edits that follow the fetch of its Github comments *)
StateEdits ==
    {k \in CallsFor({"edit_issue"}) : \E j \in CallsFor({"get_comments"}) : j < k}

(* C16: State sync is last and exact.  When a source issue that has a Github
   issue is done (not in a dry run), one state edit was made if the Github
   issue's state differed from the source issue's and none otherwise, it came
   after every comment created for the issue and was the last call for it,
   and the Github issue's state is now the source issue's. *)
C16_StateSyncedLast ==
    (pc = "end_issue" /\ github_issue # 0 /\ Migrates(options)) =>
        /\ gh_issues[github_issue].state = CurIssue.state
        /\ Cardinality(StateEdits) = IF StateBefore(github_issue) # CurIssue.state THEN 1 ELSE 0
        /\ \A k \in StateEdits :
              /\ trace[k].n = github_issue
              /\ k = Len(trace)
              /\ \A j \in CallsFor({"create_comment"}) : j < k

C16_Witness ==
    /\ pc = "end_issue" /\ github_issue # 0 /\ Migrates(options)
    /\ StateEdits # {}
    /\ CallsFor({"create_comment"}) # {}
    /\ CallsFor({"create_issue"}) # {}
    /\ CurIssue.state = "closed"

(***************************************************************************)
(* should_migrate_comment and format_comment on one comment                *)
(***************************************************************************)

(* "Issue <N> has been merged into this issue." *)
MergeNotice(n) == <<IssueCapTok, " ">> \o Dec(n) \o <<MergedTailTok, ".">>

(* texts of a source comment: none, empty, free text, the automatic notice,
   with one and two digits, followed by more text, and near misses of it *)
CommentTexts ==
    { None, <<>>, <<"a">>, <<"#", "h", NL, "#", "h">>,
      MergeNotice(5), MergeNotice(12),
      MergeNotice(5) \o <<" ", "a">>,
      <<IssueCapTok, " ", "5", MergedTailTok>>,
      <<IssueCapTok, " ", "5", MergedTailTok, NL>>,
      <<IssueCapTok, " ", "5", MergedTailTok, "!">>,
      <<IssueTok, " ", "5", MergedTailTok, ".">>,
      <<IssueCapTok, " ", MergedTailTok, ".">>,
      <<"a", " ">> \o MergeNotice(5) }

(* comment.updates.mergedIntoUpdate: 0 for none *)
MergedInto == {0, 2, 7}

CommentInit ==
    /\ arg_comment \in {Cm(t, m) : t \in CommentTexts, m \in MergedInto}
    /\ decision = <<>>
    /\ options \in {Opt(FALSE, FALSE, FALSE, FALSE, FALSE, b) : b \in {0, 100}}
    /\ rw_text = <<>> /\ rw_map = Empty /\ rw_pass = 0
    /\ source = <<>>
    /\ quota = 0
    /\ gh_issues = <<>>
    /\ gh_labels = {}
    /\ run = "first"
    /\ pc = "comments_page"
    /\ reason = ""
    /\ label_cache = {}
    /\ existing_issues = Empty
    /\ start_index = 1 /\ entry = 1 /\ previous_gid = 0 /\ github_issue = 0
    /\ labels = <<>> /\ ret = ""
    /\ existing_comments = {} /\ c_start_index = 1 /\ comments = <<>>
    /\ google_id_to_github = Empty /\ todo = <<>> /\ cidx = 1
    /\ trace = <<>>
    /\ scanned = {}
    /\ issue_map = Empty /\ scan_todo = <<>>
    /\ first = NoRun

CommentFrame ==
    UNCHANGED <<source, rw_text, rw_map, rw_pass, arg_comment, gh_issues, gh_labels, quota,
                run, options, pc, reason, labelvars, index, issuevars, commentvars, backlink,
                trace, first>>

(* should_migrate_comment(comment) *)
ShouldMigrate ==
    /\ decision = <<>>
    /\ decision' = <<IF should_migrate_comment(arg_comment) THEN "migrate" ELSE "drop">>
    /\ CommentFrame

(* format_comment(comment) of a comment to migrate: its body, or the exception *)
FormatComment ==
    /\ decision = <<"migrate">>
    /\ decision' = IF format_comment_raises(arg_comment)
                   THEN <<"migrate", "raises">>
                   ELSE <<"migrate", "body", format_comment(arg_comment, options.base_id)>>
    /\ CommentFrame

CommentNext == ShouldMigrate \/ FormatComment

CommentSpec == CommentInit /\ [][CommentNext]_vars

(* the comment has a free text, and it is not the automatic notice *)
OwnText(comment) ==
    /\ comment.text # None /\ comment.text # <<>>
    /\ \A n \in 0..99 : comment.text # MergeNotice(n)

(* C17: shouldMigrateComment decision.  A comment is migrated if and only if
   it has a free text that is not the automatic notice "Issue <N> has been
   merged into this issue.", or it carries a merged-into update; with such an
   update it is migrated whatever its text, with neither it is dropped. *)
C17_MigrateDecision ==
    decision # <<>> =>
        (decision[1] = "migrate" <=> (OwnText(arg_comment) \/ arg_comment.merged # 0))

(* the calls of the run made while a source issue was at hand *)
IssueCalls == {k \in 1..Len(trace) : trace[k].gid # 0}

(* C18: Strictly sequential ordering.  In a migration run the calls come
   issue by issue in the order the source enumerates them: no call for an
   issue follows a call for a later one, dummy entries included; issues are
   created with increasing Github numbers in that order, each carrying the
   back-reference to the source ID it was created for. *)
C18_Sequential ==
    ~options.assign_ids =>
        /\ \A j, k \in IssueCalls :
              j < k => trace[j].gid <= trace[k].gid /\ trace[j].src <= trace[k].src
        /\ \A j, k \in Events({"create_issue"}) :
              j < k => trace[j].n < trace[k].n /\ trace[j].src < trace[k].src
        /\ \A k \in Events({"create_issue"}) :
              /\ trace[k].n <= Len(gh_issues)
              /\ CarriesRef(trace[k].n, trace[k].src)

C18_Witness ==
    /\ pc = "done" /\ Migrates(options) /\ options.synchronize_ids
    /\ \E i, j, k \in Events({"create_issue"}) :
          /\ i < j /\ j < k
          /\ IsPlaceholder(gh_issues[trace[j].n])
          /\ ~IsPlaceholder(gh_issues[trace[i].n])
          /\ ~IsPlaceholder(gh_issues[trace[k].n])
    /\ \E j \in Events({"edit_issue"}) : \E k \in Events({"create_comment"}) :
          trace[j].gid = trace[j].src /\ trace[j].gid < trace[k].gid

(* C19: Back-reference round trip.  id_re finds in the body of every issue a
   run creates, dummy entries included, the source ID the issue was created
   for; and the scan of the next run has every issue the run before left
   under the source ID of its footer. *)
C19_RoundTrip ==
    /\ \A k \in Events({"create_issue"}) :
          IdSearch(gh_issues[trace[k].n].body) = trace[k].src
    /\ (run = "rerun" /\ Events({"index_built"}) # {}) =>
          \A n \in 1..Len(first.gh_issues) :
              \E g \in RefIdsOnGithub :
                  /\ CarriesRef(n, g)
                  /\ g \in scanned
                  /\ existing_issues[g] = n

C19_Witness ==
    /\ run = "rerun" /\ pc = "done" /\ first.pc = "done"
    /\ ~options.assign_ids
    /\ Events({"create_issue"}) = {}
    /\ Cardinality(scanned) >= 3
    /\ \E n, m \in 1..Len(first.gh_issues) :
          IsPlaceholder(first.gh_issues[n]) /\ ~IsPlaceholder(first.gh_issues[m])

LabelCalls(ops, name) == {k \in Events(ops) : trace[k].label = name}

LabelNames == {"imported"} \cup {trace[k].label : k \in Events({"get_label", "create_label"})}

(* C20: Idempotent label resolution.  In one run each label name is looked
   up on Github at most once and created at most once, the creation right
   after the lookup of that name, which found nothing; a name looked up is in
   the cache from then on (unless its creation is still to come), and every
   name of the cache got there by a lookup. *)
C20_LabelResolvedOnce ==
    /\ \A name \in LabelNames :
          /\ Cardinality(LabelCalls({"get_label"}, name)) <= 1
          /\ Cardinality(LabelCalls({"create_label"}, name)) <= 1
          /\ \A k \in LabelCalls({"create_label"}, name) :
                /\ k > 1
                /\ trace[k - 1].op = "get_label" /\ trace[k - 1].label = name
                /\ name \in label_cache
          /\ \A k \in LabelCalls({"get_label"}, name) :
                k < Len(trace) => name \in label_cache
    /\ \A name \in label_cache : LabelCalls({"get_label"}, name) # {}
    /\ label_cache \subseteq gh_labels

(* a label was created after a failed lookup, another was found on Github,
   and "imported" was asked for again and again *)
C20_Witness ==
    /\ pc = "done" /\ run = "rerun"
    /\ Events({"create_label"}) # {}
    /\ \E k \in Events({"get_label"}) :
          trace[k].label = "imported" /\ k < Len(trace) /\ trace[k + 1].op # "create_label"
    /\ Cardinality(Events({"create_issue"})) >= 2

(* the text b ends with f *)
EndsWith(b, f) == Len(b) >= Len(f) /\ SubSeq(b, Len(b) - Len(f) + 1, Len(b)) = f

(* C21: The backlink pass preserves the migration marker.  At every point of
   a run with --assign-ids the index get_existing_github_issues would build
   from the repository is the index it would have built before the run, and
   each issue ends with the footer, dummy entries included, it ended with
   before. *)
C21_MarkerPreserved ==
    options.assign_ids =>
        /\ Len(gh_issues) = Len(first.gh_issues)
        /\ IssueMap(gh_issues, AllIssues(gh_issues))
              = IssueMap(first.gh_issues, AllIssues(first.gh_issues))
        /\ \A n \in 1..Len(gh_issues) :
              /\ IdSearch(gh_issues[n].body) = IdSearch(first.gh_issues[n].body)
              /\ \A g \in 1..4 :
                    EndsWith(first.gh_issues[n].body, Footer(GoogleUrl(g)))
                        => EndsWith(gh_issues[n].body, Footer(GoogleUrl(g)))

(* the pass is over: it rewrote the body of a migrated issue and went over a
   dummy entry *)
C21_Witness ==
    /\ options.assign_ids /\ pc = "done"
    /\ \E n, m \in 1..Len(gh_issues) :
          /\ IdSearch(gh_issues[n].body) >= 0
          /\ gh_issues[n].body # first.gh_issues[n].body
          /\ IsPlaceholder(gh_issues[m])
          /\ EditsOf({"edit_issue"}, m) # {}

(***************************************************************************)
(* The run as a process that keeps going                                   *)
(***************************************************************************)

(* the steps of the script itself: everything but the start of the program
   and the failure of a request *)
Step ==
    \/ Startup
    \/ get_existing_github_issues
    \/ LabelCached \/ GetLabel \/ CreateLabel \/ LabelsDone
    \/ IssuesPage \/ NextIssue \/ Gap \/ PlaceholderCreate \/ PlaceholderClose
    \/ Exists \/ Filtered \/ AddIssue \/ CreateIssue \/ GetUser \/ Assign
    \/ GetComments \/ CommentsPage \/ CreateComment \/ SkipComments \/ StateEdit
    \/ EndIssue
    \/ MapGetOpen \/ MapScan \/ MapIssue \/ EditBody \/ MapGetComments \/ EditComment

(* the bodies of the comments add_comments_to_issue creates on a new issue,
   page by page from start on: a page whose list comprehension raises ends
   the run, a page with nothing to add ends the loop *)
RECURSIVE CreatedFrom(_, _)
CreatedFrom(cs, start) ==
    LET feed == Page(cs, start)
    IN  IF PageRaises(feed) \/ NewComments(feed, {}, 0) = <<>> THEN <<>>
        ELSE FormatAll(NewComments(feed, {}, 0), 0) \o CreatedFrom(cs, start + PageSize)

(* the bodies of the first k comments a run creates for the source issue *)
MigratedComments(cs, k) ==
    SubSeq(CreatedFrom(cs, 1), 1, Min(k, Len(CreatedFrom(cs, 1))))

(* the Github issue an earlier run, aborted after k comments, left for a
   source issue *)
Migrated(issue, k) ==
    [body |-> IssueBody(issue), state |-> "open",
     comments |-> MigratedComments(issue.comments, k),
     labels |-> {IssueLabels(issue, FALSE)[j] : j \in 1..Len(IssueLabels(issue, FALSE))},
     assignee |-> FALSE]

(* the first issue of the project that process_gcode_issues migrates *)
FirstMigrated(src) ==
    src[CHOOSE k \in 1..Len(src) :
            ~IsFiltered(src[k]) /\ \A j \in 1..(k - 1) : IsFiltered(src[j])]

(* the repository the run finds: empty, or with the first issue an earlier
   run migrates, without its comments or with up to two of them *)
LiveRepos(src) ==
    {<<>>} \cup (IF \A k \in 1..Len(src) : IsFiltered(src[k]) THEN {}
                ELSE {<<Migrated(FirstMigrated(src), 0)>>, <<Migrated(FirstMigrated(src), 2)>>})

LiveInit ==
    /\ source \in Sources
    /\ quota \in Quotas
    /\ gh_issues \in LiveRepos(source)
    /\ gh_labels = UNION {gh_issues[n].labels : n \in 1..Len(gh_issues)}
    /\ run = "first"
    /\ options = Opt(FALSE, FALSE, FALSE, FALSE, FALSE, 0)
    /\ pc = "start"
    /\ reason = ""
    /\ label_cache = {}
    /\ existing_issues = Empty
    /\ start_index = 1 /\ entry = 1 /\ previous_gid = 0 /\ github_issue = 0
    /\ labels = <<>> /\ ret = ""
    /\ existing_comments = {} /\ c_start_index = 1 /\ comments = <<>>
    /\ google_id_to_github = Empty /\ todo = <<>> /\ cidx = 1
    /\ trace = <<>>
    /\ scanned = {}
    /\ issue_map = Empty /\ scan_todo = <<>>
    /\ first = NoRun
    /\ rw_text = <<>> /\ rw_map = Empty /\ rw_pass = 0
    /\ arg_comment = Cm(<<>>, 0) /\ decision = <<>>

(* one run of the program in which no request fails *)
LiveNext == Start \/ Step

(* the interpreter runs the single thread of the script until it ends: a
   step that can be taken is taken *)
LiveSpec == LiveInit /\ [][LiveNext]_vars /\ WF_vars(Step)

Terminated == pc \in {"done", "aborted"}

(* C22: Termination.  A run that has started ends: its issue page loop, its
   comment page loops and its ID-gap loops finish, and the run is done, or
   aborted by the quota check, an error or a failed request. *)
C22_Terminates == (pc = "login") ~> Terminated

(* a run came to its end with no request failed, after a second page of
   issues, a second page of comments and a gap filled with a dummy entry *)
C22_Witness ==
    /\ pc = "done" /\ ~options.assign_ids
    /\ start_index > PageSize
    /\ \E k \in Events({"gc_get_comments"}) : trace[k].n > 1
    /\ \E k \in Events({"create_issue"}) : IsPlaceholder(gh_issues[trace[k].n])

====
